---- MODULE Spec2Model ----
(***************************************************************************)
(* Sample-path generators of PoissonProcess.cpp:                           *)
(*   simulateHomogeneousPoisson, simulateNonHomogeneousPoisson,            *)
(*   simulateCompoundPoisson, simMarkovChain, simRandomWalk.               *)
(*                                                                         *)
(* Times are exact values on a discrete grid (the ArrivalTime of the data  *)
(* model is a real number).  A draw from a standard distribution is a      *)
(* nondeterministic choice over the values the distribution can return;    *)
(* the values drawn are recorded in history variables (gaps, uniforms,     *)
(* jumps, bern) and counted per engine (rngDraws for the engine passed by  *)
(* reference, genDraws for a function-local static engine).                *)
(***************************************************************************)
EXTENDS Integers, Sequences, FiniteSets

\* ---------------------------------------------------------------- bounds
\* largest horizon T a caller passes
MaxT == 3
\* largest valid rate lambda a caller passes
MaxRate == 2
\* a unit-rate exponential draw takes a value in 1..MaxExp
MaxExp == 2
\* a canonical uniform draw is u/UDen with u in 0..UDen-1, i.e. in [0,1)
UDen == 2
\* a walk probability is prob/PDen
PDen == 2
\* largest step count n a caller passes
MaxSteps == 3
\* jump magnitudes lie in -MaxJump..MaxJump
MaxJump == 1
\* number of arrivals after which a gap that does not advance the clock
\* (rate < 0) is no longer followed
MaxArrivals == 2

\* ------------------------------------------------------------ input sets
\* rates a caller may pass, valid (> 0) and invalid (<= 0)
Rates == (-1)..MaxRate

Horizons == 0..MaxT

\* rate functions lambda_t : time -> rate, as functions on the time grid
RateFns ==
  { [s \in 0..MaxT |-> r] : r \in 0..MaxRate } \cup { [s \in 0..MaxT |-> s % (MaxRate + 1)] }

Jumps == (-MaxJump)..MaxJump

\* the transition matrix of main, in tenths
Scenario == << <<2, 3, 5>>, <<0, 3, 7>>, <<5, 4, 1>> >>

\* transition matrices in tenths; p[i+1][j+1] is the weight of i -> j.  The
\* rows of the last one do not sum to 1.
Matrices ==
  { Scenario,
    << <<0, 10>>, <<10, 0>> >>,
    << <<1, 1>>, <<0, 3>> >> }

Probs == (-1)..(PDen + 1)

StepCounts == (-2)..MaxSteps

\* ----------------------------------------------------------------- state
VARIABLES
  pc,               \* "idle", "hom", "thin", "comp", "chain", "walk", "done"
  fn,               \* the function the caller invoked
  outcome,          \* how the call ended
  lambda, T, t, arrivalTimes,                    \* simulateHomogeneousPoisson
  lambda_t, lambdaMax, candidateArrivals, acceptedArrivals,  \* thinning
  processPath, compoundValue,                    \* simulateCompoundPoisson
  k,                \* position of the range-for over the arrivals
  p, x0, n, x, i,   \* simMarkovChain (n, i also simRandomWalk)
  prob, positions,  \* simRandomWalk (its parameter p, its vector)
  genSeeded,        \* functions whose static engine is initialised
  rngDraws,         \* draws of this call taken from the engine passed in
  genDraws,         \* draws of this call taken from a static engine
  gaps, uniforms, jumps, bern,                   \* values drawn, in order
  iters             \* loop bodies executed after the arrivals were made

vars == << pc, fn, outcome, lambda, T, t, arrivalTimes, lambda_t, lambdaMax,
           candidateArrivals, acceptedArrivals, processPath, compoundValue, k,
           p, x0, n, x, i, prob, positions, genSeeded, rngDraws, genDraws,
           gaps, uniforms, jumps, bern, iters >>

homVars == << lambda, T, t, arrivalTimes >>
thinVars == << lambda_t, lambdaMax, candidateArrivals, acceptedArrivals >>
compVars == << processPath, compoundValue >>
chainVars == << p, x0, x >>
walkVars == << prob, positions >>
drawVars == << gaps, uniforms, jumps, bern >>

\* --------------------------------------------------------------- helpers
RECURSIVE SumSeq(_)
SumSeq(s) == IF s = << >> THEN 0 ELSE s[1] + SumSeq(Tail(s))

Front(s) == SubSeq(s, 1, Len(s) - 1)

\* a row "sums to 1" when its tenths sum to RowOne, as the rows of main do
RowOne == SumSeq(Scenario[1])

RECURSIVE IsSubseq(_, _)
IsSubseq(a, b) ==
  IF a = << >> THEN TRUE
  ELSE IF b = << >> THEN FALSE
  ELSE IF a[1] = b[1] THEN IsSubseq(Tail(a), Tail(b))
  ELSE IsSubseq(a, Tail(b))

StrictlyIncreasing(s) == \A a, b \in 1..Len(s) : a < b => s[a] < s[b]

\* a clock value larger than every finite one: a gap at rate 0 is +infinity
Infinity == MaxT + MaxRate * MaxExp + 1

\* expDist(rng) for exponential_distribution(rate): the unit-rate draw e
\* scaled by 1/rate, in ticks of 1/MaxRate
Gap(e, rate) ==
  IF rate > 0 THEN (e * MaxRate) \div rate
  ELSE IF rate < 0 THEN 0 - ((e * MaxRate) \div (0 - rate))
  ELSE Infinity

\* t += dt
Advance(clock, dt) == IF dt = Infinity THEN Infinity ELSE clock + dt

\* (variant: the comparison lets a clock one tick past the horizon through)
PastHorizon_late(clock, horizon) == clock > horizon + 1

\* if (t > T) break;
PastHorizon(clock, horizon) == clock > horizon

\* (variant: the comparison is inverted)
Accept_inverted(u, rate, rateMax) == u * rateMax > rate * UDen

\* U(rng) < lambda_t(arrivalTime) / lambdaMax, for the draw u/UDen
Accept(u, rate, rateMax) ==
  IF rateMax > 0 THEN u * rateMax < rate * UDen
  ELSE IF rateMax < 0 THEN u * rateMax > rate * UDen
  ELSE rate > 0

\* (variant: the jump replaces the running total)
Accumulate_last(total, jump) == jump

\* compoundValue += jumpSize
Accumulate(total, jump) == total + jump

\* (variant: the weights are ignored)
Categorical_any(row) == 0..(Len(row) - 1)

\* indices dist(gen) can return for discrete_distribution over a row
Categorical(row) == { j \in 0..(Len(row) - 1) : row[j + 1] > 0 }

\* dist(gen) for bernoulli_distribution(q/PDen), for the draw u/UDen
Bernoulli(u, q) == u * PDen < q * UDen

\* (variant: a failed draw leaves the position where it is)
StepOf_stay(b) == IF b THEN 1 ELSE 0

\* int step = dist(gen) ? +1 : -1
StepOf(b) == IF b THEN 1 ELSE 0 - 1

\* (variant: the range-for stops one candidate early)
HasCandidate_short(pos, candidates) == pos < Len(candidates)

\* for (double arrivalTime : candidateArrivals): a candidate is left
HasCandidate(pos, candidates) == pos <= Len(candidates)

\* std::vector<int> x(n + 1) with x[0] = x0
InitialPath(start, steps) == [j \in 0..steps |-> IF j = 0 THEN start ELSE 0]

\* std::vector<int> positions(n + 1, 0)
ZeroPath(steps) == [j \in 0..steps |-> 0]

\* ------------------------------------------------------------------ Init
Init ==
  /\ pc = "idle" /\ fn = "none" /\ outcome = "none"
  /\ lambda = 1 /\ T = 0 /\ t = 0 /\ arrivalTimes = << >>
  /\ lambda_t = [s \in 0..MaxT |-> 0] /\ lambdaMax = 1
  /\ candidateArrivals = << >> /\ acceptedArrivals = << >>
  /\ processPath = << >> /\ compoundValue = 0
  /\ k = 1
  /\ p = << >> /\ x0 = 0 /\ n = 0 /\ x = << >> /\ i = 1
  /\ prob = 0 /\ positions = << >>
  /\ genSeeded = {}
  /\ rngDraws = 0 /\ genDraws = 0
  /\ gaps = << >> /\ uniforms = << >> /\ jumps = << >> /\ bern = << >>
  /\ iters = 0

\* -------------------------------------------- simulateHomogeneousPoisson
\* entry of simulateHomogeneousPoisson(rate, horizon, rng)
EnterHom(rate, horizon) ==
  /\ lambda' = rate /\ T' = horizon /\ t' = 0 /\ arrivalTimes' = << >>
  /\ pc' = "hom"

CallHomogeneous ==
  /\ pc = "idle"
  /\ \E rate \in Rates, horizon \in Horizons : EnterHom(rate, horizon)
  /\ fn' = "hom"
  /\ UNCHANGED << outcome, thinVars, compVars, k, chainVars, n, i, walkVars,
                  genSeeded, rngDraws, genDraws, drawVars, iters >>

\* exponential_distribution(lambda) with lambda <= 0 violates the library's
\* precondition: a build with library assertions aborts in the constructor
ExpDistAbort ==
  /\ pc = "hom" /\ lambda <= 0 /\ gaps = << >>
  /\ pc' = "done" /\ outcome' = "abort"
  /\ UNCHANGED << fn, homVars, thinVars, compVars, k, chainVars, n, i,
                  walkVars, genSeeded, rngDraws, genDraws, drawVars, iters >>

\* one iteration that appends: dt = expDist(rng); t += dt; push_back(t)
HomPush ==
  /\ pc = "hom"
  /\ \E e \in 1..MaxExp :
       LET dt == Gap(e, lambda)
           tn == Advance(t, dt)
       IN /\ ~PastHorizon(tn, T)
          /\ dt > 0 \/ Len(arrivalTimes) < MaxArrivals
          /\ t' = tn
          /\ gaps' = Append(gaps, dt)
          /\ arrivalTimes' = Append(arrivalTimes, tn)
  /\ rngDraws' = rngDraws + 1
  /\ UNCHANGED << pc, fn, outcome, lambda, T, thinVars, compVars, k,
                  chainVars, n, i, walkVars, genSeeded, genDraws,
                  uniforms, jumps, bern, iters >>

\* the last iteration: dt = expDist(rng); t += dt; break; return arrivalTimes
HomBreak ==
  /\ pc = "hom"
  /\ \E e \in 1..MaxExp :
       LET dt == Gap(e, lambda)
           tn == Advance(t, dt)
       IN /\ PastHorizon(tn, T)
          /\ t' = tn
          /\ gaps' = Append(gaps, dt)
  /\ rngDraws' = rngDraws + 1
  /\ pc' = IF fn = "hom" THEN "done" ELSE fn
  /\ outcome' = IF fn = "hom" THEN "returned" ELSE outcome
  /\ candidateArrivals' = IF fn = "thin" THEN arrivalTimes ELSE candidateArrivals
  /\ arrivalTimes' = IF fn = "thin" THEN << >> ELSE arrivalTimes
  /\ UNCHANGED << fn, lambda, T, lambda_t, lambdaMax, acceptedArrivals,
                  compVars, k, chainVars, n, i, walkVars, genSeeded, genDraws,
                  uniforms, jumps, bern, iters >>

\* ----------------------------------------- simulateNonHomogeneousPoisson
CallNonHomogeneous ==
  /\ pc = "idle"
  /\ \E f \in RateFns, rateMax \in Rates, horizon \in Horizons :
       /\ lambda_t' = f /\ lambdaMax' = rateMax
       /\ EnterHom(rateMax, horizon)
  /\ fn' = "thin"
  /\ acceptedArrivals' = << >> /\ candidateArrivals' = << >> /\ k' = 1
  /\ UNCHANGED << outcome, compVars, chainVars, n, i, walkVars, genSeeded,
                  rngDraws, genDraws, drawVars, iters >>

\* one iteration of the range-for over candidateArrivals
ThinStep ==
  /\ pc = "thin" /\ HasCandidate(k, candidateArrivals)
  /\ \E u \in 0..(UDen - 1) :
       LET arrivalTime == candidateArrivals[k]
       IN /\ uniforms' = Append(uniforms, u)
          /\ acceptedArrivals' =
               IF Accept(u, lambda_t[arrivalTime], lambdaMax)
               THEN Append(acceptedArrivals, arrivalTime)
               ELSE acceptedArrivals
  /\ k' = k + 1 /\ rngDraws' = rngDraws + 1 /\ iters' = iters + 1
  /\ UNCHANGED << pc, fn, outcome, homVars, lambda_t, lambdaMax,
                  candidateArrivals, compVars, chainVars, n, i, walkVars,
                  genSeeded, genDraws, gaps, jumps, bern >>

\* return acceptedArrivals
ThinReturn ==
  /\ pc = "thin" /\ ~HasCandidate(k, candidateArrivals)
  /\ pc' = "done" /\ outcome' = "returned"
  /\ UNCHANGED << fn, homVars, thinVars, compVars, k, chainVars, n, i,
                  walkVars, genSeeded, rngDraws, genDraws, drawVars, iters >>

\* ----------------------------------------------- simulateCompoundPoisson
CallCompound ==
  /\ pc = "idle"
  /\ \E rate \in Rates, horizon \in Horizons : EnterHom(rate, horizon)
  /\ fn' = "comp"
  /\ processPath' = << >> /\ compoundValue' = 0 /\ k' = 1
  /\ UNCHANGED << outcome, thinVars, chainVars, n, i, walkVars, genSeeded,
                  rngDraws, genDraws, drawVars, iters >>

\* one iteration of the range-for over arrivalTimes
CompStep ==
  /\ pc = "comp" /\ k <= Len(arrivalTimes)
  /\ \E jumpSize \in Jumps :
       /\ jumps' = Append(jumps, jumpSize)
       /\ compoundValue' = Accumulate(compoundValue, jumpSize)
       /\ processPath' = Append(processPath,
                                << arrivalTimes[k], Accumulate(compoundValue, jumpSize) >>)
  /\ k' = k + 1 /\ rngDraws' = rngDraws + 1 /\ iters' = iters + 1
  /\ UNCHANGED << pc, fn, outcome, homVars, thinVars, chainVars, n, i,
                  walkVars, genSeeded, genDraws, gaps, uniforms, bern >>

\* return processPath
CompReturn ==
  /\ pc = "comp" /\ k > Len(arrivalTimes)
  /\ pc' = "done" /\ outcome' = "returned"
  /\ UNCHANGED << fn, homVars, thinVars, compVars, k, chainVars, n, i,
                  walkVars, genSeeded, rngDraws, genDraws, drawVars, iters >>

\* -------------------------------------------------------- simMarkovChain
\* entry: static engine, std::vector<int> x(n + 1); x[0] = x0
\*   n + 1 < 0 : the vector constructor throws std::length_error
\*   n + 1 = 0 : x[0] = x0 writes past an empty vector (undefined): the
\*               process crashes or the write goes unnoticed
CallMarkovChain ==
  /\ pc = "idle"
  /\ \E m \in Matrices, steps \in StepCounts :
     \E start \in (-1)..Len(m) :
       /\ p' = m /\ x0' = start /\ n' = steps
       /\ \/ /\ steps < -1
             /\ pc' = "done" /\ outcome' = "length_error" /\ x' = << >>
          \/ /\ steps = -1
             /\ \/ pc' = "done" /\ outcome' = "crash"
                \/ pc' = "chain" /\ outcome' = outcome
             /\ x' = << >>
          \/ /\ steps >= 0
             /\ pc' = "chain" /\ outcome' = outcome
             /\ x' = InitialPath(start, steps)
  /\ fn' = "chain" /\ i' = 1
  /\ genSeeded' = genSeeded \cup {"simMarkovChain"}
  /\ UNCHANGED << homVars, thinVars, compVars, k, walkVars, rngDraws,
                  genDraws, drawVars, iters >>

\* one iteration: x[i] = dist(gen), dist built from the row p[x[i-1]]
ChainStep ==
  /\ pc = "chain" /\ i <= n
  /\ x[i - 1] \in 0..(Len(p) - 1)
  /\ \E next \in Categorical(p[x[i - 1] + 1]) : x' = [x EXCEPT ![i] = next]
  /\ i' = i + 1 /\ genDraws' = genDraws + 1 /\ iters' = iters + 1
  /\ UNCHANGED << pc, fn, outcome, homVars, thinVars, compVars, k, p, x0, n,
                  walkVars, genSeeded, rngDraws, drawVars >>

\* one iteration whose p[x[i-1]] reads past the matrix (undefined): the
\* process crashes, or a row of foreign memory yields some index
ChainStepOutOfRange ==
  /\ pc = "chain" /\ i <= n
  /\ x[i - 1] \notin 0..(Len(p) - 1)
  /\ \/ /\ pc' = "done" /\ outcome' = "crash"
        /\ UNCHANGED << x, i, genDraws, iters >>
     \/ /\ \E next \in 0..Len(p) : x' = [x EXCEPT ![i] = next]
        /\ i' = i + 1 /\ genDraws' = genDraws + 1 /\ iters' = iters + 1
        /\ UNCHANGED << pc, outcome >>
  /\ UNCHANGED << fn, homVars, thinVars, compVars, k, p, x0, n, walkVars,
                  genSeeded, rngDraws, drawVars >>

\* return x
ChainReturn ==
  /\ pc = "chain" /\ i > n
  /\ pc' = "done" /\ outcome' = "returned"
  /\ UNCHANGED << fn, homVars, thinVars, compVars, k, chainVars, n, i,
                  walkVars, genSeeded, rngDraws, genDraws, drawVars, iters >>

\* --------------------------------------------------------- simRandomWalk
\* entry: static engine, bernoulli_distribution dist(p), positions(n+1, 0)
\*   p outside [0,1] violates the library's precondition: a build with
\*   library assertions aborts in the constructor
\*   n + 1 < 0 : the vector constructor throws std::length_error
CallRandomWalk ==
  /\ pc = "idle"
  /\ \E q \in Probs, steps \in StepCounts :
       /\ prob' = q /\ n' = steps
       /\ \/ /\ q \notin 0..PDen
             /\ pc' = "done" /\ outcome' = "abort" /\ positions' = << >>
          \/ /\ steps < -1
             /\ pc' = "done" /\ outcome' = "length_error" /\ positions' = << >>
          \/ /\ steps >= -1
             /\ pc' = "walk" /\ outcome' = outcome
             /\ positions' = ZeroPath(steps)
  /\ fn' = "walk" /\ i' = 1
  /\ genSeeded' = genSeeded \cup {"simRandomWalk"}
  /\ UNCHANGED << homVars, thinVars, compVars, k, chainVars, rngDraws,
                  genDraws, drawVars, iters >>

\* one iteration: step = dist(gen) ? +1 : -1; positions[i] = positions[i-1] + step
WalkStep ==
  /\ pc = "walk" /\ i <= n
  /\ \E u \in 0..(UDen - 1) :
       LET b == Bernoulli(u, prob)
       IN /\ bern' = Append(bern, b)
          /\ positions' = [positions EXCEPT ![i] = positions[i - 1] + StepOf(b)]
  /\ i' = i + 1 /\ genDraws' = genDraws + 1 /\ iters' = iters + 1
  /\ UNCHANGED << pc, fn, outcome, homVars, thinVars, compVars, k, chainVars,
                  n, prob, genSeeded, rngDraws, gaps, uniforms, jumps >>

\* return positions
WalkReturn ==
  /\ pc = "walk" /\ i > n
  /\ pc' = "done" /\ outcome' = "returned"
  /\ UNCHANGED << fn, homVars, thinVars, compVars, k, chainVars, n, i,
                  walkVars, genSeeded, rngDraws, genDraws, drawVars, iters >>

\* ---------------------------------------------------------------- caller
\* the caller is done with the returned value; the locals of the call are
\* gone, the static engines stay initialised
Finish ==
  /\ pc = "done"
  /\ pc' = "idle" /\ fn' = "none" /\ outcome' = "none"
  /\ lambda' = 1 /\ T' = 0 /\ t' = 0 /\ arrivalTimes' = << >>
  /\ lambda_t' = [s \in 0..MaxT |-> 0] /\ lambdaMax' = 1
  /\ candidateArrivals' = << >> /\ acceptedArrivals' = << >>
  /\ processPath' = << >> /\ compoundValue' = 0
  /\ k' = 1
  /\ p' = << >> /\ x0' = 0 /\ n' = 0 /\ x' = << >> /\ i' = 1
  /\ prob' = 0 /\ positions' = << >>
  /\ rngDraws' = 0 /\ genDraws' = 0
  /\ gaps' = << >> /\ uniforms' = << >> /\ jumps' = << >> /\ bern' = << >>
  /\ iters' = 0
  /\ UNCHANGED genSeeded

\* the steps inside a call
Step ==
  \/ ExpDistAbort \/ HomPush \/ HomBreak
  \/ ThinStep \/ ThinReturn
  \/ CompStep \/ CompReturn
  \/ ChainStep \/ ChainStepOutOfRange \/ ChainReturn
  \/ WalkStep \/ WalkReturn

Next ==
  \/ CallHomogeneous \/ CallNonHomogeneous \/ CallCompound
  \/ CallMarkovChain \/ CallRandomWalk
  \/ ExpDistAbort \/ HomPush \/ HomBreak
  \/ ThinStep \/ ThinReturn
  \/ CompStep \/ CompReturn
  \/ ChainStep \/ ChainStepOutOfRange \/ ChainReturn
  \/ WalkStep \/ WalkReturn
  \/ Finish

Spec == Init /\ [][Next]_vars

\* a call, once entered, keeps running: the execution is synchronous
LiveSpec == Init /\ [][Next]_vars /\ WF_vars(Step)

\* ---------------------------------------------------------- properties
\* the value simulateHomogeneousPoisson returned to its caller
HomResult == IF fn = "thin" THEN candidateArrivals ELSE arrivalTimes

\* simulateHomogeneousPoisson has returned in the current call
HomReturned ==
  /\ fn \in {"hom", "thin", "comp"}
  /\ pc \notin {"idle", "hom"}
  /\ outcome # "abort"

ConstantAtMax == \A s \in 0..MaxT : lambda_t[s] = lambdaMax

RowsSumToOne == \A r \in 1..Len(p) : SumSeq(p[r]) = RowOne

ChainArgsValid == x0 \in 0..(Len(p) - 1) /\ RowsSumToOne /\ n >= 0

WalkArgsValid == prob \in 0..PDen /\ n >= 0

\* the parameters of the current call satisfy the generator's constraints
ValidCall ==
  CASE fn \in {"hom", "comp"} -> lambda > 0
    [] fn = "thin" -> lambdaMax > 0
    [] fn = "chain" -> x0 \in 0..(Len(p) - 1) /\ n >= 0
    [] fn = "walk" -> WalkArgsValid
    [] OTHER -> FALSE

\* C1: for rate > 0 and horizon >= 0 the sequence simulateHomogeneousPoisson
\* returns is strictly increasing, every element is <= horizon, and it is
\* empty when horizon = 0, whatever positive gaps were drawn.
C1_ArrivalSequence ==
  (HomReturned /\ lambda > 0) =>
     /\ StrictlyIncreasing(HomResult)
     /\ \A a \in 1..Len(HomResult) : HomResult[a] <= T
     /\ (T = 0 => HomResult = << >>)

C1_Witness ==
  /\ pc = "done" /\ fn = "hom" /\ lambda > 0 /\ outcome = "returned"
  /\ Len(arrivalTimes) >= 2 /\ arrivalTimes[Len(arrivalTimes)] = T

\* C2: for a valid initial state and steps >= 0 the path simMarkovChain
\* returns has length steps+1, starts at the initial state, and each
\* consecutive pair of states has a nonzero entry in the matrix.
C2_ChainPath ==
  (fn = "chain" /\ pc = "done" /\ x0 \in 0..(Len(p) - 1) /\ n >= 0) =>
     /\ outcome = "returned"
     /\ DOMAIN x = 0..n
     /\ x[0] = x0
     /\ \A j \in 0..(n - 1) :
          /\ x[j] \in 0..(Len(p) - 1) /\ x[j + 1] \in 0..(Len(p) - 1)
          /\ p[x[j] + 1][x[j + 1] + 1] > 0

C2_Witness ==
  /\ fn = "chain" /\ pc = "done" /\ outcome = "returned" /\ n >= 3
  /\ x0 = 1 /\ Len(p) = 3 /\ p[2][1] = 0
  /\ x[n] = 0

\* C3: for upProbability in [0,1] and steps >= 0 the path simRandomWalk
\* returns has length steps+1, starts at 0, and moves by +1 exactly when the
\* Bernoulli draw of the step succeeded and by -1 otherwise.
C3_WalkPath ==
  (fn = "walk" /\ pc = "done" /\ WalkArgsValid) =>
     /\ outcome = "returned"
     /\ DOMAIN positions = 0..n
     /\ positions[0] = 0
     /\ Len(bern) = n
     /\ \A j \in 0..(n - 1) :
          positions[j + 1] - positions[j] = (IF bern[j + 1] THEN 1 ELSE -1)

C3_Witness ==
  /\ fn = "walk" /\ pc = "done" /\ outcome = "returned" /\ WalkArgsValid
  /\ n >= 2
  /\ \E a, b \in 1..Len(bern) : bern[a] /\ ~bern[b]

\* C4: simulateCompoundPoisson calls jumpGenerator once per arrival, in
\* arrival order, and not for the discarded gap: the path is as long as the
\* arrival sequence, its i-th time is the i-th arrival and its i-th value is
\* the sum of the first i jumps drawn.
C4_CompoundPath ==
  (fn = "comp" /\ pc = "done" /\ outcome = "returned") =>
     /\ Len(processPath) = Len(arrivalTimes)
     /\ Len(jumps) = Len(arrivalTimes)
     /\ Len(gaps) = Len(arrivalTimes) + 1
     /\ \A j \in 1..Len(processPath) :
          /\ processPath[j][1] = arrivalTimes[j]
          /\ processPath[j][2] = SumSeq(SubSeq(jumps, 1, j))

C4_Witness ==
  /\ fn = "comp" /\ pc = "done" /\ outcome = "returned"
  /\ Len(processPath) >= 2
  /\ jumps[1] # 0 /\ jumps[2] # 0

\* C5: simulateNonHomogeneousPoisson returns a subsequence of the candidate
\* sequence in candidate order, takes one uniform draw per candidate, and
\* returns the whole candidate sequence when the rate function is constant
\* at rateMax.
C5_Thinning ==
  (fn = "thin" /\ pc = "done" /\ outcome = "returned") =>
     /\ IsSubseq(acceptedArrivals, candidateArrivals)
     /\ Len(uniforms) = Len(candidateArrivals)
     /\ (ConstantAtMax => acceptedArrivals = candidateArrivals)

C5_Witness ==
  /\ fn = "thin" /\ pc = "done" /\ outcome = "returned"
  /\ ConstantAtMax
  /\ Len(candidateArrivals) >= 2
  /\ acceptedArrivals = candidateArrivals
  /\ \E a \in 1..Len(uniforms) : uniforms[a] > 0

\* C6: a call of simulateHomogeneousPoisson with rate <= 0, or of
\* simulateNonHomogeneousPoisson with rateMax <= 0, takes no draw from the
\* engine and returns no sequence.
C6_InvalidRateRejected ==
  (fn \in {"hom", "thin"} /\ lambda <= 0) =>
     /\ rngDraws = 0
     /\ outcome # "returned"

\* C7: a call of simMarkovChain with an initial state that is no row index,
\* with a row that does not sum to 1, or with steps < 0 samples no state and
\* returns no path.
C7_InvalidChainRejected ==
  (fn = "chain" /\ ~ChainArgsValid) =>
     /\ genDraws = 0
     /\ outcome # "returned"

\* C8: a call of simRandomWalk with upProbability outside [0,1] or with
\* steps < 0 takes no Bernoulli draw and returns no path.
C8_InvalidWalkRejected ==
  (fn = "walk" /\ ~WalkArgsValid) =>
     /\ genDraws = 0
     /\ outcome # "returned"

\* C9: every generator takes all of its draws from the engine passed into
\* the call: no call draws from a function-local static engine.
C9_NoAmbientEngine == genDraws = 0

\* the loops ran as often as the horizon or the step count says
IterationCounts ==
  /\ fn \in {"hom", "thin", "comp"} =>
       /\ gaps # << >>
       /\ SumSeq(gaps) > T
       /\ SumSeq(Front(gaps)) <= T
       /\ Len(HomResult) = Len(gaps) - 1
  /\ fn = "thin" => iters = Len(candidateArrivals)
  /\ fn = "comp" => iters = Len(arrivalTimes)
  /\ fn \in {"chain", "walk"} => iters = n

\* C10: with valid parameters every call runs to completion; the homogeneous
\* loop stops at the first gap that takes the clock past the horizon, the
\* thinning and compound loops run once per arrival whatever the rate
\* function returns, and the chain and walk loops run exactly steps times.
C10_RunsToCompletion ==
  /\ (ValidCall /\ pc # "done") ~> (pc = "done" /\ outcome = "returned")
  /\ []((ValidCall /\ pc = "done") => IterationCounts)

C10_Witness ==
  /\ fn = "thin" /\ pc = "done" /\ outcome = "returned" /\ lambdaMax > 0
  /\ \A s \in 0..MaxT : lambda_t[s] = 0
  /\ Len(candidateArrivals) >= 2
  /\ iters = Len(candidateArrivals)
  /\ acceptedArrivals = << >>

====
